---- MODULE Spec2Model ----
(***************************************************************************)
(* Model of qubes-streaming (src/src/main.rs): the handshake codec         *)
(* (send_stream_videoinfo / recv_stream_videoinfo over a pipe) and the     *)
(* lifecycle loops of producer() and receiver().                           *)
(***************************************************************************)
EXTENDS Integers, Sequences, FiniteSets, TLC

(***************************************************************************)
(* Bounds of the model.                                                    *)
(***************************************************************************)
\* bus messages a graph posts during one run
MaxMsgs == 2
\* messages that may wait on a bus at once
MaxBus == 1
\* clock ticks that make up one bus-poll timeout (from_seconds(1))
TicksPerTimeout == 2

\* media bytes the capture graph's fdsink writes after the header
MaxMedia == 2
\* capacity of the BufReader inside std::io::Stdin, scaled down from the
\* standard library's 8 KiB; it stays larger than any header of the model
StdinBufCap == 24

Roles == {"producer", "receiver"}

\* kinds of message a graph posts on its bus: MessageView::Eos, ::Error, _
MsgKinds == {"eos", "error", "other"}

VARIABLES
  pc,              \* position of each role's driver
  should_exit,     \* the AtomicBool the signal handlers set
  already_exited,  \* the loop's local: end-of-stream already requested
  received_eos,    \* the loop's local: loop exit condition
  bus,             \* messages waiting on each graph's bus
  posted,          \* number of messages each graph has posted
  consumed,        \* number of bus messages each driver has taken
  eos_sent,        \* calls of pipeline.send_event(Eos)
  null_set,        \* calls of pipeline.set_state(Null)
  ctrl_pipe,       \* control bytes delivered on the receiver's stdout
  ctrl_attempts,   \* write_all(&[0xa]) calls of the receiver
  ctrl_failed,     \* a control-byte write or flush has failed
  result,          \* what producer() / receiver() returned
  term,            \* the terminal bus message each driver matched
  reobs,           \* triggers met again after the drain request
  waited,          \* ticks spent in the current bus wait
  since,           \* ticks since should_exit was set and not yet acted on
  peer,            \* who writes the receiver's stdin: "producer" or "raw"
  video_info,      \* the VideoInfo the producer's probe returned
  hpc,             \* the producer's position in its start-up sequence
  stdout_buf,      \* bytes held by the LineWriter of std::io::Stdout
  out_bytes,       \* every byte written so far to the pipe's write end
  media_written,   \* media bytes written by fdsink
  pipe,            \* bytes in the pipe, written and not yet read
  wr_closed,       \* the pipe's write end is closed
  rpc,             \* the receiver's position in recv_stream_videoinfo
  stdin_buf,       \* bytes read from fd 0 and held by Stdin's BufReader
  buffer,          \* the filled part of `buffer: [u8; 16]`
  format_len,      \* the decoded length field
  format_buf,      \* the filled part of `format_buf`
  fd_read,         \* bytes taken from descriptor 0 by read(2)
  decoded,         \* what recv_stream_videoinfo returned
  rx,              \* the sync_channel(1) of probe_videoinfo
  probe_result     \* how probe_videoinfo returned

lifeVars == <<pc, should_exit, already_exited, received_eos, bus, posted,
              consumed, eos_sent, null_set, ctrl_pipe, ctrl_attempts,
              ctrl_failed, result, term, reobs>>
timeVars == <<waited, since>>
sendVars == <<hpc, stdout_buf, out_bytes, media_written>>
pipeVars == <<pipe, wr_closed>>
recvVars == <<rpc, stdin_buf, buffer, format_len, format_buf, fd_read, decoded>>
probeVars == <<rx, probe_result>>
hsVars == <<peer, probeVars, video_info, sendVars, pipeVars, recvVars>>

Min(a, b) == IF a < b THEN a ELSE b

(***************************************************************************)
(* The handshake codec.  A String is its UTF-8 bytes; a usize is 64 bits   *)
(* wide and is kept as its eight big-endian bytes, or as a number when it  *)
(* is below 2^31.                                                          *)
(***************************************************************************)
\* i32::to_le_bytes, the byte order reversed
I32ToLe(v) ==
  LET u == IF v >= 0 THEN v ELSE v + 2147483647 + 1
      top == (u \div 16777216) + (IF v >= 0 THEN 0 ELSE 128)
  IN  <<u % 256, (u \div 256) % 256, (u \div 65536) % 256, top>>

\* i32::to_be_bytes
I32ToBe(v) ==
  LET u == IF v >= 0 THEN v ELSE v + 2147483647 + 1
      top == (u \div 16777216) + (IF v >= 0 THEN 0 ELSE 128)
  IN  <<top, (u \div 65536) % 256, (u \div 256) % 256, u % 256>>

\* i32::from_be_bytes
I32FromBe(b) ==
  LET low == (b[1] % 128) * 16777216 + b[2] * 65536 + b[3] * 256 + b[4]
  IN  IF b[1] < 128 THEN low ELSE low - 2147483647 - 1

\* the length written as a 32-bit word only
UsizeToBe4(n) ==
  <<n \div 16777216, (n \div 65536) % 256, (n \div 256) % 256, n % 256>>

\* usize::to_be_bytes, of a length below 2^31
UsizeToBe(n) ==
  <<0, 0, 0, 0,
    n \div 16777216, (n \div 65536) % 256, (n \div 256) % 256, n % 256>>

\* usize::from_be_bytes: `huge` when the value is 2^31 or more, `over` when
\* it exceeds isize::MAX, `n` its value otherwise
UsizeFromBe(b) ==
  LET big == (\E i \in 1..4 : b[i] # 0) \/ b[5] >= 128
  IN  [huge |-> big,
       over |-> b[1] >= 128,
       n |-> IF big THEN 0
             ELSE b[5] * 16777216 + b[6] * 65536 + b[7] * 256 + b[8]]

IsCont(x) == x >= 128 /\ x <= 191

\* what String::from_utf8 accepts: the well-formed UTF-8 byte sequences
RECURSIVE IsValidUtf8(_)
IsValidUtf8(b) ==
  IF b = <<>> THEN TRUE
  ELSE LET x == b[1]
           n == Len(b)
           rest(k) == IsValidUtf8(SubSeq(b, k + 1, n))
       IN  IF x < 128 THEN rest(1)
           ELSE IF x >= 194 /\ x <= 223
                THEN n >= 2 /\ IsCont(b[2]) /\ rest(2)
           ELSE IF x >= 224 /\ x <= 239
                THEN /\ n >= 3
                     /\ IsCont(b[2]) /\ IsCont(b[3])
                     /\ (x = 224 => b[2] >= 160)
                     /\ (x = 237 => b[2] <= 159)
                     /\ rest(3)
           ELSE IF x >= 240 /\ x <= 244
                THEN /\ n >= 4
                     /\ IsCont(b[2]) /\ IsCont(b[3]) /\ IsCont(b[4])
                     /\ (x = 240 => b[2] >= 144)
                     /\ (x = 244 => b[2] <= 143)
                     /\ rest(4)
           ELSE FALSE

\* index of the last newline byte of data, 0 when it has none (memrchr)
LastNewline(data) ==
  LET at == {i \in 1..Len(data) : data[i] = 10}
  IN  IF at = {} THEN 0 ELSE CHOOSE i \in at : \A j \in at : j <= i

(***************************************************************************)
(* Inputs of the handshake.                                                *)
(***************************************************************************)
Widths == {3840, 1, 10, 0, -1, 2147483647, -2147483647 - 1}
Heights == {1080, 1, 2570, -2}
\* "BGRx", "x", "é", "\nY", ""
Formats == {<<66, 71, 82, 120>>, <<120>>, <<195, 169>>, <<10, 89>>, <<>>}

VideoInfos ==
  {[width |-> w, height |-> h, format |-> f] :
     w \in Widths, h \in Heights, f \in Formats}

\* byte streams a peer other than the producer may feed to stdin
RawWidths == {<<0, 0, 15, 0>>, <<255, 255, 255, 255>>}
RawHeights == {<<0, 0, 4, 56>>, <<0, 0, 0, 0>>}
RawLengths ==
  {UsizeToBe(0), UsizeToBe(1), UsizeToBe(2), UsizeToBe(3),
   <<0, 0, 0, 0, 128, 0, 0, 0>>, <<0, 0, 1, 0, 0, 0, 0, 0>>,
   <<128, 0, 0, 0, 0, 0, 0, 0>>,
   <<255, 255, 255, 255, 255, 255, 255, 255>>}
RawPayloads ==
  {<<>>, <<65>>, <<255>>, <<195, 169>>, <<195>>, <<65, 66, 67>>,
   <<192, 128, 65>>}

Prefixes(b) == {SubSeq(b, 1, k) : k \in 0..Len(b)}

RawStreams ==
  UNION {Prefixes(w \o h \o l \o p) :
           w \in RawWidths, h \in RawHeights, l \in RawLengths,
           p \in RawPayloads}

NoVideoInfo == [width |-> 0, height |-> 0, format |-> <<>>]
NotDecoded == [outcome |-> "none", width |-> 0, height |-> 0, format |-> <<>>]
NoLength == [huge |-> FALSE, over |-> FALSE, n |-> 0]

\* the receiver before recv_stream_videoinfo has read anything
RecvInit ==
  /\ rpc = "read_header"
  /\ stdin_buf = <<>>
  /\ buffer = <<>>
  /\ format_len = NoLength
  /\ format_buf = <<>>
  /\ fd_read = 0
  /\ decoded = NotDecoded

\* either the producer is about to probe the screen, or another peer has
\* written some bytes to the pipe and closed it
HandshakeInit ==
  /\ RecvInit
  /\ stdout_buf = <<>>
  /\ media_written = 0
  /\ rx = <<>>
  /\ probe_result = "none"
  /\ \/ /\ peer = "producer"
        /\ video_info = NoVideoInfo
        /\ hpc = "probe_play"
        /\ out_bytes = <<>>
        /\ pipe = <<>>
        /\ wr_closed = FALSE
     \/ /\ peer = "raw"
        /\ video_info = NoVideoInfo
        /\ hpc = "exit"
        /\ out_bytes \in RawStreams
        /\ pipe = out_bytes
        /\ wr_closed = TRUE

(***************************************************************************)
(* probe_videoinfo: a one-frame graph whose appsink callback sends the     *)
(* caps of its sample into a channel, read once the bus loop has ended.    *)
(***************************************************************************)
\* a failed probe that producer() does not propagate: it goes on to send
ProbeFailIgnored(msg) ==
  /\ hpc' = "width"
  /\ probe_result' = msg
  /\ UNCHANGED wr_closed

\* probe_videoinfo returns Err(msg) and `?` in producer() returns it: the
\* process ends and its descriptors close
ProbeFail(msg) ==
  /\ hpc' = "exit"
  /\ probe_result' = msg
  /\ wr_closed' = TRUE

\* pipeline.set_state(Playing).context("playing pipeline")?
ProbePlay ==
  /\ peer = "producer"
  /\ hpc = "probe_play"
  /\ \E ok \in BOOLEAN :
       IF ok
       THEN hpc' = "probe" /\ UNCHANGED <<probe_result, wr_closed>>
       ELSE ProbeFail("playing pipeline")
  /\ UNCHANGED <<peer, rx, video_info, stdout_buf, out_bytes, media_written,
                 pipe, recvVars>>

\* the new_sample callback: the one buffer of ximagesrc reaches the appsink
\* and its caps are sent into the channel
ProbeSample ==
  /\ peer = "producer"
  /\ hpc = "probe"
  /\ rx = <<>>
  /\ \E v \in VideoInfos : rx' = <<v>>
  /\ UNCHANGED <<peer, probe_result, video_info, sendVars, pipeVars,
                 recvVars>>

\* the bus loop matches Eos or Error and breaks; set_state(Null)?; then
\* rx.try_recv(): Ok(video_info), or Err("unable to find video size")
ProbeEnd ==
  /\ peer = "producer"
  /\ hpc = "probe"
  /\ \E msg \in {"eos", "error"}, ok \in BOOLEAN :
       IF ~ok
       THEN ProbeFail("set_state") /\ UNCHANGED <<rx, video_info>>
       ELSE IF rx = <<>>
       THEN /\ ProbeFail("unable to find video size")
            /\ UNCHANGED <<rx, video_info>>
       ELSE /\ video_info' = Head(rx)
            /\ rx' = <<>>
            /\ probe_result' = "Ok"
            /\ hpc' = "width"
            /\ UNCHANGED wr_closed
  /\ UNCHANGED <<peer, stdout_buf, out_bytes, media_written, pipe, recvVars>>

(***************************************************************************)
(* send_stream_videoinfo, and the producer up to its capture graph playing.*)
(***************************************************************************)
\* Stdout's LineWriter, write_all(data): up to the last newline of data the
\* bytes go to descriptor 1 at once, behind what was held; the rest is held
StdoutWriteAll(data) ==
  LET k == LastNewline(data)
      lines == stdout_buf \o SubSeq(data, 1, k)
  IN  IF k = 0
      THEN /\ stdout_buf' = stdout_buf \o data
           /\ UNCHANGED <<out_bytes, pipe>>
      ELSE /\ stdout_buf' = SubSeq(data, k + 1, Len(data))
           /\ out_bytes' = out_bytes \o lines
           /\ pipe' = pipe \o lines

\* the three fixed fields and the payload, in the order they are written
WidthField(v) == I32ToBe(v.width)
HeightField(v) == I32ToBe(v.height)
LengthField(v) == UsizeToBe(Len(v.format))

SendPart(at, data, next) ==
  /\ peer = "producer"
  /\ hpc = at
  /\ StdoutWriteAll(data)
  /\ hpc' = next
  /\ UNCHANGED <<peer, probeVars, video_info, media_written, wr_closed,
                 recvVars>>

\* dest.write_all(&width)?
SendWidth == SendPart("width", WidthField(video_info), "height")
\* dest.write_all(&height)?
SendHeight == SendPart("height", HeightField(video_info), "format_len")
\* dest.write_all(&format_len)?
SendFormatLen == SendPart("format_len", LengthField(video_info), "format")
\* dest.write_all(format)?
SendFormat == SendPart("format", video_info.format, "flush")

\* send_stream_videoinfo returning without its flush: what the LineWriter
\* holds stays held
SendNoFlush ==
  /\ peer = "producer"
  /\ hpc = "flush"
  /\ hpc' = "play"
  /\ UNCHANGED <<peer, probeVars, video_info, stdout_buf, out_bytes,
                 media_written, pipeVars, recvVars>>

\* dest.flush()?; Ok(())
SendFlush ==
  /\ peer = "producer"
  /\ hpc = "flush"
  /\ out_bytes' = out_bytes \o stdout_buf
  /\ pipe' = pipe \o stdout_buf
  /\ stdout_buf' = <<>>
  /\ hpc' = "play"
  /\ UNCHANGED <<peer, probeVars, video_info, media_written, wr_closed,
                 recvVars>>

\* the capture graph is set to Playing
StartCapture ==
  /\ peer = "producer"
  /\ hpc = "play"
  /\ hpc' = "playing"
  /\ UNCHANGED <<peer, probeVars, video_info, stdout_buf, out_bytes,
                 media_written, pipeVars, recvVars>>

\* fdsink writes frame data to descriptor 1
WriteMedia ==
  /\ peer = "producer"
  /\ hpc = "playing"
  /\ media_written < MaxMedia
  /\ \E b \in {0, 77} :
       /\ out_bytes' = Append(out_bytes, b)
       /\ pipe' = Append(pipe, b)
  /\ media_written' = media_written + 1
  /\ UNCHANGED <<peer, probeVars, video_info, hpc, stdout_buf, wr_closed,
                 recvVars>>

\* the producer process ends, or is killed, and its descriptors close; bytes
\* still held by the LineWriter are lost
ProducerExit ==
  /\ peer = "producer"
  /\ hpc # "exit"
  /\ hpc' = "exit"
  /\ wr_closed' = TRUE
  /\ stdout_buf' = <<>>
  /\ UNCHANGED <<peer, probeVars, video_info, out_bytes, media_written, pipe,
                 recvVars>>

(***************************************************************************)
(* recv_stream_videoinfo.                                                  *)
(***************************************************************************)
\* a read that hands over exactly the bytes asked for and holds none
ReadCallUnbuffered(need) ==
  LET k == IF need.huge THEN Len(pipe) ELSE Min(need.n, Len(pipe))
  IN  [got |-> SubSeq(pipe, 1, k),
       held |-> <<>>,
       pipe |-> SubSeq(pipe, k + 1, Len(pipe)),
       taken |-> k]

\* one BufReader::read call of read_exact's loop, asking for `need` bytes:
\* held bytes first; else a direct read when at least the capacity is asked
\* for; else the buffer is filled with up to its capacity from descriptor 0
ReadCall(need) ==
  IF stdin_buf # <<>>
  THEN LET k == IF need.huge THEN Len(stdin_buf)
                ELSE Min(need.n, Len(stdin_buf))
       IN  [got |-> SubSeq(stdin_buf, 1, k),
            held |-> SubSeq(stdin_buf, k + 1, Len(stdin_buf)),
            pipe |-> pipe,
            taken |-> 0]
  ELSE IF need.huge \/ need.n >= StdinBufCap
  THEN ReadCallUnbuffered(need)
  ELSE LET f == Min(StdinBufCap, Len(pipe))
           k == Min(need.n, f)
       IN  [got |-> SubSeq(pipe, 1, k),
            held |-> SubSeq(pipe, k + 1, f),
            pipe |-> SubSeq(pipe, f + 1, Len(pipe)),
            taken |-> f]

\* read(2) on an empty pipe blocks until a byte arrives or the writer closes
CanRead == stdin_buf # <<>> \/ pipe # <<>> \/ wr_closed

\* `?`: recv_stream_videoinfo returns the error
RecvErr == decoded' = [NotDecoded EXCEPT !.outcome = "Err"]

\* src.read_exact(&mut buffer)?
RecvHeader ==
  /\ rpc = "read_header"
  /\ CanRead
  /\ LET c == ReadCall([huge |-> FALSE, n |-> 16 - Len(buffer)])
     IN  /\ stdin_buf' = c.held
         /\ pipe' = c.pipe
         /\ fd_read' = fd_read + c.taken
         /\ IF c.got = <<>>
            THEN RecvErr /\ rpc' = "done" /\ UNCHANGED buffer
            ELSE /\ buffer' = buffer \o c.got
                 /\ rpc' = IF Len(buffer') = 16 THEN "parse" ELSE "read_header"
                 /\ UNCHANGED decoded
  /\ UNCHANGED <<peer, probeVars, video_info, sendVars, wr_closed, format_len,
                 format_buf>>

\* what `vec![0; format_len]` may do: a capacity above isize::MAX panics; an
\* allocation of 2 GiB or more succeeds or aborts the process
AllocOutcomes(len) ==
  IF len.over THEN {"panic"}
  ELSE IF len.huge THEN {"ok", "abort"}
  ELSE {"ok"}

\* the three from_be_bytes and `vec![0; format_len]`
RecvParse ==
  /\ rpc = "parse"
  /\ format_len' = UsizeFromBe(SubSeq(buffer, 9, 16))
  /\ \E a \in AllocOutcomes(format_len') :
       IF a = "ok"
       THEN /\ rpc' = IF ~format_len'.huge /\ format_len'.n = 0
                      THEN "from_utf8" ELSE "read_format"
            /\ UNCHANGED decoded
       ELSE /\ rpc' = "done"
            /\ decoded' = [NotDecoded EXCEPT !.outcome = a]
  /\ UNCHANGED <<peer, probeVars, video_info, sendVars, pipeVars, stdin_buf,
                 buffer, format_buf, fd_read>>

\* src.read_exact(&mut format_buf)?
RecvFormat ==
  /\ rpc = "read_format"
  /\ CanRead
  /\ LET c == ReadCall([huge |-> format_len.huge,
                        n |-> format_len.n - Len(format_buf)])
     IN  /\ stdin_buf' = c.held
         /\ pipe' = c.pipe
         /\ fd_read' = fd_read + c.taken
         /\ IF c.got = <<>>
            THEN RecvErr /\ rpc' = "done" /\ UNCHANGED format_buf
            ELSE /\ format_buf' = IF format_len.huge THEN format_buf
                                  ELSE format_buf \o c.got
                 /\ rpc' = IF ~format_len.huge /\ Len(format_buf') = format_len.n
                           THEN "from_utf8" ELSE "read_format"
                 /\ UNCHANGED decoded
  /\ UNCHANGED <<peer, probeVars, video_info, sendVars, wr_closed, buffer,
                 format_len>>

\* String::from_utf8(format_buf)?; Ok(VideoInfo { width, height, format })
RecvFromUtf8 ==
  /\ rpc = "from_utf8"
  /\ rpc' = "done"
  /\ IF IsValidUtf8(format_buf)
     THEN decoded' = [outcome |-> "Ok",
                      width |-> I32FromBe(SubSeq(buffer, 1, 4)),
                      height |-> I32FromBe(SubSeq(buffer, 5, 8)),
                      format |-> format_buf]
     ELSE RecvErr
  /\ UNCHANGED <<peer, probeVars, video_info, sendVars, pipeVars, stdin_buf,
                 buffer, format_len, format_buf, fd_read>>

\* the handshake of Scenario A, completed: the state in which the loops start
ScenarioA == [width |-> 3840, height |-> 1080, format |-> <<66, 71, 82, 120>>]

HandshakeDone ==
  /\ peer = "producer"
  /\ rx = <<>>
  /\ probe_result = "Ok"
  /\ video_info = ScenarioA
  /\ hpc = "play"
  /\ stdout_buf = <<>>
  /\ out_bytes = WidthField(ScenarioA) \o HeightField(ScenarioA)
                   \o LengthField(ScenarioA) \o ScenarioA.format
  /\ media_written = 0
  /\ pipe = <<>>
  /\ wr_closed = FALSE
  /\ rpc = "done"
  /\ stdin_buf = <<>>
  /\ buffer = SubSeq(out_bytes, 1, 16)
  /\ format_len = [huge |-> FALSE, over |-> FALSE, n |-> 4]
  /\ format_buf = ScenarioA.format
  /\ fd_read = 20
  /\ decoded = [outcome |-> "Ok", width |-> 3840, height |-> 1080,
                format |-> ScenarioA.format]

(***************************************************************************)
(* The lifecycle loops.                                                    *)
(***************************************************************************)
LifeInit ==
  /\ pc = [r \in Roles |-> "play"]
  /\ should_exit = [r \in Roles |-> FALSE]
  /\ already_exited = [r \in Roles |-> FALSE]
  /\ received_eos = [r \in Roles |-> FALSE]
  /\ bus = [r \in Roles |-> <<>>]
  /\ posted = [r \in Roles |-> 0]
  /\ consumed = [r \in Roles |-> 0]
  /\ eos_sent = [r \in Roles |-> 0]
  /\ null_set = [r \in Roles |-> 0]
  /\ ctrl_pipe = 0
  /\ ctrl_attempts = 0
  /\ ctrl_failed = FALSE
  /\ result = [r \in Roles |-> "none"]
  /\ term = [r \in Roles |-> "none"]
  /\ reobs = [r \in Roles |-> {}]

TimeInit ==
  /\ waited = [r \in Roles |-> 0]
  /\ since = [r \in Roles |-> 0]

\* `?` on a failed call: the function returns Err at once
ReturnErr(r) ==
  /\ pc' = [pc EXCEPT ![r] = "done"]
  /\ result' = [result EXCEPT ![r] = "Err"]

\* pipeline.set_state(Playing).context(..)?
Play(r) ==
  /\ pc[r] = "play"
  /\ \E ok \in BOOLEAN :
       IF ok
       THEN pc' = [pc EXCEPT ![r] = "flag"] /\ UNCHANGED result
       ELSE ReturnErr(r)
  /\ UNCHANGED <<should_exit, already_exited, received_eos, bus, posted,
                 consumed, eos_sent, null_set, ctrl_pipe, ctrl_attempts,
                 ctrl_failed, term, reobs>>

\* a signal handler registered by signal_hook::flag::register stores true
Signal(r) ==
  /\ pc[r] # "done"
  /\ ~should_exit[r]
  /\ should_exit' = [should_exit EXCEPT ![r] = TRUE]
  /\ UNCHANGED <<pc, already_exited, received_eos, bus, posted, consumed,
                 eos_sent, null_set, ctrl_pipe, ctrl_attempts, ctrl_failed,
                 result, term, reobs>>

\* the graph of role r posts a message on its bus
GraphPost(r) ==
  /\ pc[r] \in {"flag", "ctrl", "bus", "final"}
  /\ posted[r] < MaxMsgs
  /\ Len(bus[r]) < MaxBus
  /\ \E m \in MsgKinds : bus' = [bus EXCEPT ![r] = Append(@, m)]
  /\ posted' = [posted EXCEPT ![r] = @ + 1]
  /\ UNCHANGED <<pc, should_exit, already_exited, received_eos, consumed,
                 eos_sent, null_set, ctrl_pipe, ctrl_attempts, ctrl_failed,
                 result, term, reobs>>

\* the position after the flag check: the producer polls stdin next
AfterFlag(r) == IF r = "producer" THEN "ctrl" ELSE "bus"

\* a trigger found present once the drain request is recorded
Reobserve(r, kind, present) ==
  reobs' = [reobs EXCEPT ![r] =
              IF already_exited[r] /\ present THEN @ \cup {kind} ELSE @]

\* `!already_exited && should_exit.load(Relaxed)`
FlagGuard(r) == ~already_exited[r] /\ should_exit[r]

\* top of the while body: the ShutdownFlag check
CheckFlag(r) ==
  /\ pc[r] = "flag"
  /\ Reobserve(r, "signal", should_exit[r])
  /\ IF FlagGuard(r)
     THEN IF r = "receiver"
          THEN \E wok \in BOOLEAN :
                 /\ ctrl_attempts' = ctrl_attempts + 1
                 /\ IF wok
                    THEN /\ ctrl_pipe' = ctrl_pipe + 1
                         /\ eos_sent' = [eos_sent EXCEPT ![r] = @ + 1]
                         /\ already_exited' = [already_exited EXCEPT ![r] = TRUE]
                         /\ pc' = [pc EXCEPT ![r] = AfterFlag(r)]
                         /\ UNCHANGED <<result, ctrl_failed>>
                    ELSE /\ ctrl_failed' = TRUE
                         /\ ReturnErr(r)
                         /\ UNCHANGED <<ctrl_pipe, eos_sent, already_exited>>
          ELSE /\ eos_sent' = [eos_sent EXCEPT ![r] = @ + 1]
               /\ already_exited' = [already_exited EXCEPT ![r] = TRUE]
               /\ pc' = [pc EXCEPT ![r] = AfterFlag(r)]
               /\ UNCHANGED <<result, ctrl_pipe, ctrl_attempts, ctrl_failed>>
     ELSE /\ pc' = [pc EXCEPT ![r] = AfterFlag(r)]
          /\ UNCHANGED <<result, ctrl_pipe, ctrl_attempts, ctrl_failed,
                         eos_sent, already_exited>>
  /\ UNCHANGED <<should_exit, received_eos, bus, posted, consumed, null_set,
                 term>>

\* a poll that reports the descriptor only when a byte waits on it
PollReadyOnByte == ctrl_pipe > 0

\* revents of poll(stdin, POLLIN): a byte to read, or the writer has gone
PollReady == ctrl_pipe > 0 \/ pc["receiver"] = "done"

\* the poll made whatever already_exited says (the left operand dropped)
CtrlGuardDropped == TRUE

\* `!already_exited`, the left operand that decides whether stdin is polled
CtrlGuard == ~already_exited["producer"]

\* the producer's control-channel check
CheckCtrl ==
  /\ pc["producer"] = "ctrl"
  /\ Reobserve("producer", "control", PollReady)
  /\ IF CtrlGuard
     THEN \E pok \in BOOLEAN :
            IF ~pok
            THEN ReturnErr("producer") /\ UNCHANGED <<eos_sent, already_exited>>
            ELSE /\ pc' = [pc EXCEPT !["producer"] = "bus"]
                 /\ UNCHANGED result
                 /\ IF PollReady
                    THEN /\ eos_sent' = [eos_sent EXCEPT !["producer"] = @ + 1]
                         /\ already_exited' =
                              [already_exited EXCEPT !["producer"] = TRUE]
                    ELSE UNCHANGED <<eos_sent, already_exited>>
     ELSE /\ pc' = [pc EXCEPT !["producer"] = "bus"]
          /\ UNCHANGED <<result, eos_sent, already_exited>>
  /\ UNCHANGED <<should_exit, received_eos, bus, posted, consumed, null_set,
                 ctrl_pipe, ctrl_attempts, ctrl_failed, term>>

\* the arm without its `break`: the for loop goes on taking messages
AfterTerminalNoBreak(r) == "bus"

\* where the driver goes after the Eos / Error arm: `break` leaves the for
\* loop and `while !received_eos` ends
AfterTerminal(r) == "final"

\* the producer's Error arm without its set_state(Null)
ErrorArmStopsNone(r) == 0

\* set_state(Null) calls made inside the Error arm
ErrorArmStops(r) == IF r = "producer" THEN 1 ELSE 0

\* an Error arm that writes the control byte in both roles
ErrorArmWritesBoth(r) == 1

\* control-byte writes made inside the Error arm
ErrorArmWrites(r) == IF r = "receiver" THEN 1 ELSE 0

\* one step of `for msg in bus.iter_timed(1 s)`: a message, or the timeout
BusPoll(r) ==
  /\ pc[r] = "bus"
  /\ IF bus[r] = <<>>
     THEN /\ pc' = [pc EXCEPT ![r] = "flag"]
          /\ UNCHANGED <<bus, consumed, received_eos, term, null_set, result,
                         ctrl_pipe, ctrl_attempts, ctrl_failed>>
     ELSE /\ bus' = [bus EXCEPT ![r] = Tail(@)]
          \* messages taken, counted as far as MaxMsgs
          /\ consumed' = [consumed EXCEPT ![r] = Min(@ + 1, MaxMsgs)]
          /\ CASE Head(bus[r]) = "eos" ->
                    /\ received_eos' = [received_eos EXCEPT ![r] = TRUE]
                    /\ term' = [term EXCEPT ![r] = "normal"]
                    /\ pc' = [pc EXCEPT ![r] = AfterTerminal(r)]
                    /\ UNCHANGED <<null_set, result, ctrl_pipe, ctrl_attempts,
                                   ctrl_failed>>
               [] Head(bus[r]) = "error" ->
                    /\ term' = [term EXCEPT ![r] = "error"]
                    /\ null_set' = [null_set EXCEPT ![r] = @ + ErrorArmStops(r)]
                    /\ ctrl_attempts' = ctrl_attempts + ErrorArmWrites(r)
                    /\ \E ok \in BOOLEAN :
                         IF ok
                         THEN /\ received_eos' = [received_eos EXCEPT ![r] = TRUE]
                              /\ pc' = [pc EXCEPT ![r] = AfterTerminal(r)]
                              /\ ctrl_pipe' = ctrl_pipe + ErrorArmWrites(r)
                              /\ UNCHANGED <<result, ctrl_failed>>
                         ELSE /\ ReturnErr(r)
                              /\ ctrl_failed' =
                                   (ctrl_failed \/ ErrorArmWrites(r) > 0)
                              /\ UNCHANGED <<received_eos, ctrl_pipe>>
               [] OTHER ->
                    /\ pc' = [pc EXCEPT ![r] = "bus"]
                    /\ UNCHANGED <<received_eos, term, null_set, result,
                                   ctrl_pipe, ctrl_attempts, ctrl_failed>>
  /\ UNCHANGED <<should_exit, already_exited, posted, eos_sent, reobs>>

\* what the function returns once the final set_state(Null)? succeeded
FinalResult(r) == "Ok"

\* after the loop: pipeline.set_state(Null)?; Ok(())
Final(r) ==
  /\ pc[r] = "final"
  /\ null_set' = [null_set EXCEPT ![r] = @ + 1]
  /\ pc' = [pc EXCEPT ![r] = "done"]
  /\ \E ok \in BOOLEAN :
       result' = [result EXCEPT ![r] = IF ok THEN FinalResult(r) ELSE "Err"]
  /\ UNCHANGED <<should_exit, already_exited, received_eos, bus, posted,
                 consumed, eos_sent, ctrl_pipe, ctrl_attempts, ctrl_failed,
                 term, reobs>>

vars == <<lifeVars, timeVars, hsVars>>

Init == LifeInit /\ TimeInit /\ HandshakeDone

PlayStep == \E r \in Roles : Play(r) /\ UNCHANGED <<timeVars, hsVars>>
SignalStep == \E r \in Roles : Signal(r) /\ UNCHANGED <<timeVars, hsVars>>
GraphPostStep ==
  \E r \in Roles : GraphPost(r) /\ UNCHANGED <<timeVars, hsVars>>
CheckFlagStep ==
  \E r \in Roles : CheckFlag(r) /\ UNCHANGED <<timeVars, hsVars>>
CheckCtrlStep == CheckCtrl /\ UNCHANGED <<timeVars, hsVars>>
BusPollStep == \E r \in Roles : BusPoll(r) /\ UNCHANGED <<timeVars, hsVars>>
FinalStep == \E r \in Roles : Final(r) /\ UNCHANGED <<timeVars, hsVars>>

Next ==
  \/ PlayStep
  \/ SignalStep
  \/ GraphPostStep
  \/ CheckFlagStep
  \/ CheckCtrlStep
  \/ BusPollStep
  \/ FinalStep

Spec == Init /\ [][Next]_vars

(***************************************************************************)
(* The same loops with the time spent waiting on the bus: iter_timed       *)
(* returns a waiting message at once and None only after the timeout.      *)
(***************************************************************************)
\* time passes while a driver waits on an empty bus
Tick(r) ==
  /\ pc[r] = "bus"
  /\ bus[r] = <<>>
  /\ waited[r] < TicksPerTimeout
  /\ waited' = [waited EXCEPT ![r] = @ + 1]
  /\ since' = [since EXCEPT ![r] =
                 IF should_exit[r] /\ ~already_exited[r]
                 THEN Min(@ + 1, TicksPerTimeout + 1) ELSE @]
  /\ UNCHANGED <<lifeVars, hsVars>>

\* iter_timed's next(): None is returned only when the timeout has elapsed
BusPollTimed(r) ==
  /\ BusPoll(r)
  /\ (bus[r] = <<>> => waited[r] = TicksPerTimeout)
  /\ waited' = [waited EXCEPT ![r] = 0]
  /\ UNCHANGED <<since, hsVars>>

TickStep == \E r \in Roles : Tick(r)
BusPollTimedStep == \E r \in Roles : BusPollTimed(r)

NextTimed ==
  \/ PlayStep
  \/ SignalStep
  \/ GraphPostStep
  \/ CheckFlagStep
  \/ CheckCtrlStep
  \/ BusPollTimedStep
  \/ FinalStep
  \/ TickStep

SpecTimed == Init /\ [][NextTimed]_vars

(***************************************************************************)
(* The loops as two running processes: each driver keeps taking the steps  *)
(* of its own loop, and a graph may go on posting non-terminal messages    *)
(* for as long as it runs (they are no longer counted once MaxMsgs were).  *)
(***************************************************************************)
\* the graph of role r posts one more message that is neither Eos nor Error
OtherPost(r) ==
  /\ pc[r] \in {"flag", "ctrl", "bus"}
  /\ posted[r] = MaxMsgs
  /\ Len(bus[r]) < MaxBus
  /\ bus' = [bus EXCEPT ![r] = Append(@, "other")]
  /\ UNCHANGED <<pc, should_exit, already_exited, received_eos, posted,
                 consumed, eos_sent, null_set, ctrl_pipe, ctrl_attempts,
                 ctrl_failed, result, term, reobs>>

OtherPostStep ==
  \E r \in Roles : OtherPost(r) /\ UNCHANGED <<timeVars, hsVars>>

\* any step of role r's own thread, from set_state(Playing) to its return
LoopStep(r) ==
  /\ \/ Play(r)
     \/ CheckFlag(r)
     \/ r = "producer" /\ CheckCtrl
     \/ BusPoll(r)
     \/ Final(r)
  /\ UNCHANGED <<timeVars, hsVars>>

NextLive ==
  \/ PlayStep
  \/ SignalStep
  \/ GraphPostStep
  \/ OtherPostStep
  \/ CheckFlagStep
  \/ CheckCtrlStep
  \/ BusPollStep
  \/ FinalStep

\* each process is scheduled: a driver that can take a step takes one
Fairness == \A r \in Roles : WF_vars(LoopStep(r))

SpecLive == Init /\ [][NextLive]_vars /\ Fairness

(***************************************************************************)
(* The handshake alone: the producer's start-up against the receiver's     *)
(* recv_stream_videoinfo, over the pipe.                                   *)
(***************************************************************************)
InitHandshake == LifeInit /\ TimeInit /\ HandshakeInit

NextHandshake ==
  \/ ProbePlay /\ UNCHANGED <<lifeVars, timeVars>>
  \/ ProbeSample /\ UNCHANGED <<lifeVars, timeVars>>
  \/ ProbeEnd /\ UNCHANGED <<lifeVars, timeVars>>
  \/ SendWidth /\ UNCHANGED <<lifeVars, timeVars>>
  \/ SendHeight /\ UNCHANGED <<lifeVars, timeVars>>
  \/ SendFormatLen /\ UNCHANGED <<lifeVars, timeVars>>
  \/ SendFormat /\ UNCHANGED <<lifeVars, timeVars>>
  \/ SendFlush /\ UNCHANGED <<lifeVars, timeVars>>
  \/ StartCapture /\ UNCHANGED <<lifeVars, timeVars>>
  \/ WriteMedia /\ UNCHANGED <<lifeVars, timeVars>>
  \/ ProducerExit /\ UNCHANGED <<lifeVars, timeVars>>
  \/ RecvHeader /\ UNCHANGED <<lifeVars, timeVars>>
  \/ RecvParse /\ UNCHANGED <<lifeVars, timeVars>>
  \/ RecvFormat /\ UNCHANGED <<lifeVars, timeVars>>
  \/ RecvFromUtf8 /\ UNCHANGED <<lifeVars, timeVars>>

SpecHandshake == InitHandshake /\ [][NextHandshake]_vars

(***************************************************************************)
(* Properties of the handshake (checked under SpecHandshake).              *)
(***************************************************************************)
\* C3: when recv_stream_videoinfo has returned Ok, exactly 16 + length bytes
\* have been taken from descriptor 0 and none is held back in Stdin's
\* buffer, so the next byte on the descriptor is the first frame byte.
C3_CursorAtFirstFrameByte ==
  (rpc = "done" /\ decoded.outcome = "Ok") =>
    fd_read = 16 + Len(decoded.format) /\ stdin_buf = <<>>

ValidGeometry(v) ==
  v.width > 0 /\ v.height > 0 /\ v.format # <<>> /\ IsValidUtf8(v.format)

\* the producer has written its whole header to the pipe
HeaderWritten ==
  peer = "producer" /\ Len(out_bytes) >= 16 + Len(video_info.format)

\* C8: for a valid geometry g, recv_stream_videoinfo fed with the bytes that
\* send_stream_videoinfo(g) wrote returns g: width, height and format name.
C8_RoundTrip ==
  (peer = "producer" /\ ValidGeometry(video_info) /\ rpc = "done"
     /\ HeaderWritten) =>
    decoded = [outcome |-> "Ok", width |-> video_info.width,
               height |-> video_info.height, format |-> video_info.format]

\* a header with the largest width and a two-byte character has been decoded
C8_LargestWidthDecoded ==
  /\ peer = "producer" /\ rpc = "done" /\ HeaderWritten
  /\ decoded.outcome = "Ok"
  /\ video_info.width = 2147483647
  /\ video_info.format = <<195, 169>>

\* the stream has ended before 16 bytes, or before 16 + declared length
Truncated ==
  /\ wr_closed
  /\ \/ Len(out_bytes) < 16
     \/ LET len == UsizeFromBe(SubSeq(out_bytes, 9, 16))
        IN  len.huge \/ len.n > Len(out_bytes) - 16

\* C9: decoding a truncated stream ends in a DecodeError, whatever length
\* the header declares; it never panics or aborts.
C9_TruncatedIsDecodeError ==
  (rpc = "done" /\ Truncated) => decoded.outcome = "Err"

\* the four bytes b[at..at+3] are the big-endian two's complement of v
IsBigEndianI32(b, at, v) ==
  /\ \A i \in at..(at + 3) : b[i] \in 0..255
  /\ (b[at] >= 128) <=> (v < 0)
  /\ (b[at] - (IF v < 0 THEN 256 ELSE 0)) * 16777216
       + b[at + 1] * 65536 + b[at + 2] * 256 + b[at + 3] = v

\* C10: once send_stream_videoinfo has returned, the producer has written
\* 16 + n bytes: width and height as 4 big-endian bytes each, n as 8
\* big-endian bytes, then the n bytes of the format name; Scenario A gives
\* 00 00 0F 00, 00 00 04 38, 00 00 00 00 00 00 00 04, "BGRx".
C10_WireLayout ==
  (peer = "producer" /\ hpc \in {"play", "playing"}) =>
    LET n == Len(video_info.format)
        o == out_bytes
    IN  /\ Len(o) = 16 + n + media_written
        /\ IsBigEndianI32(o, 1, video_info.width)
        /\ IsBigEndianI32(o, 5, video_info.height)
        /\ \A i \in 9..12 : o[i] = 0
        /\ IsBigEndianI32(o, 13, n)
        /\ SubSeq(o, 17, 16 + n) = video_info.format
        /\ (video_info = ScenarioA =>
              SubSeq(o, 1, 20) = <<0, 0, 15, 0, 0, 0, 4, 56,
                                   0, 0, 0, 0, 0, 0, 0, 4, 66, 71, 82, 120>>)

\* send_stream_videoinfo has returned for Scenario A's geometry and the
\* receiver has not read yet
C10_ScenarioASent ==
  /\ peer = "producer" /\ hpc = "play" /\ rpc = "read_header"
  /\ video_info = ScenarioA

\* the header send_stream_videoinfo writes for v, in wire order
HeaderBytes(v) ==
  WidthField(v) \o HeightField(v) \o LengthField(v) \o v.format

\* C11: the producer writes its header at most once, and the whole of it is
\* on descriptor 1 (nothing held by Stdout) before the capture graph is set
\* to Playing: what is on the pipe is a prefix of the header followed by the
\* media bytes, and media bytes only follow the complete header.
C11_MediaFollowsHeader ==
  peer = "producer" =>
    LET hdr == HeaderBytes(video_info)
        sent == Len(out_bytes) - media_written
    IN  /\ sent >= 0 /\ sent <= Len(hdr)
        /\ SubSeq(out_bytes, 1, sent) = SubSeq(hdr, 1, sent)
        /\ (hpc = "playing" \/ media_written > 0) =>
              (sent = Len(hdr) /\ stdout_buf = <<>>)
        /\ hpc \in {"width", "height", "format_len", "format", "flush",
                     "play"} => media_written = 0

\* the capture graph plays and has written media behind a header whose
\* format name holds a newline, which Stdout wrote through before the flush
C11_MediaBehindSplitHeader ==
  /\ peer = "producer" /\ hpc = "playing"
  /\ media_written >= 2
  /\ video_info.format = <<10, 89>>

(***************************************************************************)
(* Properties of the lifecycle loops.                                      *)
(***************************************************************************)
\* C1: in both roles the driver calls send_event(Eos) at most once over a
\* run, whatever flags, control bytes and bus messages it sees afterwards.
C1_EosRequestedAtMostOnce == \A r \in Roles : eos_sent[r] <= 1

\* both drivers have requested end-of-stream once and have then met their
\* triggers again: the producer both its flag and a control byte
C1_TriggersSeenAgain ==
  /\ \A r \in Roles : eos_sent[r] = 1 /\ should_exit[r]
  /\ ctrl_pipe > 0
  /\ reobs["producer"] = {"signal", "control"}
  /\ reobs["receiver"] = {"signal"}

\* a finished run that matched an Error message before any trigger was
\* acted on
ErrorRunDone(r) ==
  pc[r] = "done" /\ term[r] = "error" /\ ~already_exited[r]

\* C2 as stated: a run that met Error in Playing with no prior trigger has
\* issued set_state(Null) exactly once over the whole run and send_event(Eos)
\* never, in each role.
C2_ErrorRunStopsOnce ==
  \A r \in Roles : ErrorRunDone(r) => null_set[r] = 1 /\ eos_sent[r] = 0

\* set_state(Null) calls of a run ended by Error: the producer stops the
\* graph in the arm and again after the loop; the receiver only after the
\* loop, which it does not reach when its control-byte write fails
StopsOfErrorRun(r) ==
  IF r = "producer"
  THEN (IF received_eos[r] THEN 2 ELSE 1)
  ELSE (IF received_eos[r] THEN 1 ELSE 0)

\* C2 amended: such a run never calls send_event(Eos); the producer calls
\* set_state(Null) in the Error arm and, when that call succeeds, once more
\* after the loop (twice in all); the receiver calls it once, after the
\* loop, and not at all when its control-byte write fails.
C2_ErrorRunStops ==
  \A r \in Roles :
    ErrorRunDone(r) => null_set[r] = StopsOfErrorRun(r) /\ eos_sent[r] = 0

\* both roles have finished a run ended by Error in Playing, the Error arm
\* having completed
C2_BothErrorRunsDone ==
  \A r \in Roles : ErrorRunDone(r) /\ received_eos[r]

\* C4: a failed control-byte write is not escalated: the receiver's run
\* still ends with the graph stopped.
C4_WriteFailureNotEscalated ==
  (ctrl_failed /\ pc["receiver"] = "done") => null_set["receiver"] >= 1

\* C5: a run that ends because an Error message was matched returns an
\* error to its caller, in both roles.
C5_ErrorRunReturnsErr ==
  \A r \in Roles : (pc[r] = "done" /\ term[r] = "error") => result[r] = "Err"

\* C6: while the flag is set and not yet acted on, the driver has waited on
\* the bus for at most one timeout period (checked under SpecTimed).
C6_DrainWithinOneTimeout == \A r \in Roles : since[r] <= TicksPerTimeout

\* C7: once a driver has set received_eos it takes no further bus message,
\* changes no loop state, requests no end-of-stream and (receiver) writes no
\* control byte; it only issues the final set_state(Null) and returns.
C7_TerminatedAbsorbing ==
  [][\A r \in Roles :
       received_eos[r] =>
         /\ received_eos'[r]
         /\ term'[r] = term[r]
         /\ already_exited'[r] = already_exited[r]
         /\ consumed'[r] = consumed[r]
         /\ Len(bus'[r]) >= Len(bus[r])
         /\ eos_sent'[r] = eos_sent[r]
         /\ (r = "receiver" => ctrl_attempts' = ctrl_attempts)
         /\ pc'[r] \in {"final", "done"}
         /\ null_set'[r] = null_set[r] + (IF pc[r] = "final" /\ pc'[r] = "done"
                                          THEN 1 ELSE 0)]_vars

\* both drivers are Terminated while a message waits on each bus, each flag
\* is set and was never acted on, and a control byte is in the pipe
C7_TerminatedWithPending ==
  /\ \A r \in Roles :
       /\ pc[r] = "done" /\ received_eos[r]
       /\ bus[r] # <<>>
       /\ should_exit[r] /\ ~already_exited[r]
  /\ ctrl_pipe > 0

\* the lifecycle states of spec 4.4, read off a driver's loop variables
Playing(r) ==
  pc[r] \in {"flag", "ctrl", "bus"} /\ ~already_exited[r] /\ term[r] = "none"
Draining(r) ==
  pc[r] \in {"flag", "ctrl", "bus"} /\ already_exited[r] /\ term[r] = "none"

\* C12 (Scenario D): a driver that finds its flag set while Playing requests
\* end-of-stream, for the only time, and is Draining afterwards; a Draining
\* driver stays Draining until it matches a terminal message; and it becomes
\* Terminated(normal) only by taking an Eos message off its bus, after its
\* one request.
C12_ScenarioD ==
  [][\A r \in Roles :
       /\ (Playing(r) /\ pc[r] = "flag" /\ should_exit[r] /\ pc'[r] # pc[r]) =>
            /\ eos_sent[r] = 0 /\ eos_sent'[r] = 1
            /\ already_exited'[r] /\ term'[r] = "none"
            /\ pc'[r] \in {"ctrl", "bus"}
       /\ Draining(r) =>
            \/ term'[r] # "none"
            \/ /\ pc'[r] \in {"flag", "ctrl", "bus"}
               /\ already_exited'[r]
               /\ eos_sent'[r] = eos_sent[r]
       /\ (Draining(r) /\ term'[r] = "normal") =>
            /\ bus[r] # <<>> /\ Head(bus[r]) = "eos"
            /\ eos_sent[r] = 1]_vars

\* C13 (Scenario C): a driver that matched Eos while Playing, no trigger
\* acted on, is Terminated(normal) at once (the loop is left, only the final
\* stop remains) and has requested end-of-stream zero times, up to its
\* return.
C13_ScenarioC ==
  \A r \in Roles :
    (term[r] = "normal" /\ ~already_exited[r]) =>
      /\ eos_sent[r] = 0
      /\ received_eos[r]
      /\ pc[r] \in {"final", "done"}
      /\ null_set[r] = (IF pc[r] = "done" THEN 1 ELSE 0)

\* both runs have ended on an Eos message that came with no signal raised,
\* no control byte written and no request made
C13_UnrequestedEosEndedBoth ==
  /\ \A r \in Roles :
       /\ pc[r] = "done" /\ term[r] = "normal"
       /\ ~should_exit[r] /\ ~already_exited[r]
       /\ consumed[r] >= 1
  /\ ctrl_pipe = 0

\* C14: from any state where a control byte is in the pipe and the producer
\* is Playing, the producer comes to request end-of-stream on its own graph;
\* a producer whose loop ended first for another reason (a terminal message
\* of its own, a failed poll) is counted as unwound too (checked under
\* SpecLive, whose fairness schedules the producer's loop).
C14_UnwindsUpstream ==
  (ctrl_pipe > 0 /\ Playing("producer")) ~>
    (eos_sent["producer"] >= 1 \/ pc["producer"] \in {"final", "done"})

\* C15: from any state where the producer has ended its run on a terminal
\* message (its process is gone, the pipe is at end of file) while the
\* receiver is Playing, the receiver comes to leave its loop (checked under
\* SpecLive, whose fairness schedules the receiver's loop).
C15_ShutsDownstream ==
  (pc["producer"] = "done" /\ term["producer"] # "none"
     /\ Playing("receiver")) ~>
    (pc["receiver"] \in {"final", "done"})

\* C16 as stated: a control-channel check made while no control byte was
\* written (the channel empty, or closed by the receiver) goes on to the bus
\* with no request made and does not make the driver return; and the
\* producer requests end-of-stream only with its flag set or a byte written.
C16_StopOnlyOnByte ==
  [][/\ (pc["producer"] = "ctrl" /\ ctrl_pipe = 0
           /\ pc'["producer"] # "ctrl") =>
          /\ pc'["producer"] = "bus"
          /\ eos_sent'["producer"] = eos_sent["producer"]
          /\ already_exited'["producer"] = already_exited["producer"]
     /\ eos_sent'["producer"] > eos_sent["producer"] =>
          (should_exit["producer"] \/ ctrl_pipe > 0)]_vars

\* C16 amended: the check, made only while no request was recorded, makes
\* the driver return Err when poll itself fails; otherwise it requests
\* end-of-stream exactly when the descriptor is ready, which it is with a
\* byte written or with the receiver gone, and not with the channel open and
\* empty; a request is only made with the flag set, a byte written or the
\* receiver gone.
C16_StopOnReadiness ==
  [][/\ (pc["producer"] = "ctrl" /\ pc'["producer"] # "ctrl") =>
          \/ /\ ~already_exited["producer"]
             /\ pc'["producer"] = "done" /\ result'["producer"] = "Err"
             /\ eos_sent'["producer"] = eos_sent["producer"]
          \/ /\ pc'["producer"] = "bus"
             /\ result'["producer"] = result["producer"]
             /\ eos_sent'["producer"] = eos_sent["producer"] +
                  (IF ~already_exited["producer"]
                      /\ (ctrl_pipe > 0 \/ pc["receiver"] = "done")
                   THEN 1 ELSE 0)
             /\ already_exited'["producer"] =
                  (eos_sent'["producer"] >= 1)
     /\ eos_sent'["producer"] > eos_sent["producer"] =>
          (should_exit["producer"] \/ ctrl_pipe > 0
             \/ pc["receiver"] = "done")]_vars

\* the producer has requested end-of-stream with its flag clear and no
\* control byte ever written: the receiver had returned
C16_StoppedOnHangUp ==
  /\ eos_sent["producer"] = 1 /\ already_exited["producer"]
  /\ ~should_exit["producer"]
  /\ ctrl_pipe = 0 /\ ctrl_attempts = 0
  /\ pc["receiver"] = "done"

\* C17: a driver whose set_state(Playing) succeeded returns only through the
\* code after its loop, with the final set_state(Null) issued by that step,
\* whichever way the run ended.
C17_StopIssuedBeforeReturn ==
  [][\A r \in Roles :
       (pc[r] \in {"flag", "ctrl", "bus", "final"} /\ pc'[r] = "done") =>
         /\ pc[r] = "final"
         /\ null_set'[r] = null_set[r] + 1]_vars

\* C18: a driver that requested end-of-stream leaves its loop only on a
\* terminal message, never on an empty poll or a timeout of its own, and
\* when it has returned the stop command was issued.
C18_DrainEndsStopped ==
  \A r \in Roles :
    (already_exited[r] /\ pc[r] \in {"final", "done"}) =>
      /\ term[r] # "none"
      /\ (pc[r] = "done" => null_set[r] >= 1)

\* C19: the receiver calls write_all(&[0xa]) once when it acts on its flag
\* (before send_event(Eos): a failed write leaves no request made) and once
\* in the Error arm, and nowhere else, and nothing the producer does is such
\* a write: at any time the writes attempted are those two transitions
\* taken so far, and the bytes in the pipe are the writes that succeeded.
C19_ControlByteWrites ==
  LET r == "receiver"
      atFlag == already_exited[r] \/ (ctrl_failed /\ term[r] = "none")
  IN  /\ ctrl_attempts = (IF atFlag THEN 1 ELSE 0)
                           + (IF term[r] = "error" THEN 1 ELSE 0)
      /\ ctrl_pipe = ctrl_attempts - (IF ctrl_failed THEN 1 ELSE 0)
      /\ (ctrl_failed /\ term[r] = "none") => eos_sent[r] = 0
      /\ eos_sent[r] = (IF already_exited[r] THEN 1 ELSE 0)

\* a receiver run that acted on a signal and then met Error has returned
\* with two control bytes written, the producer having met an Error of its
\* own
C19_SignalThenErrorWroteTwo ==
  /\ pc["receiver"] = "done"
  /\ already_exited["receiver"] /\ term["receiver"] = "error"
  /\ ctrl_pipe = 2 /\ ~ctrl_failed
  /\ term["producer"] = "error"

\* C20: a geometry that recv_stream_videoinfo returned Ok, which receiver()
\* puts unchanged into its capsfilter, has width > 0, height > 0 and a
\* non-empty format name (checked under SpecHandshake).
C20_GeometryAccepted ==
  (rpc = "done" /\ decoded.outcome = "Ok") =>
    decoded.width > 0 /\ decoded.height > 0 /\ decoded.format # <<>>

\* C21: when probe_videoinfo has returned an error (no sample in the
\* channel after Eos or Error, or a failed state change) the producer has
\* returned with it: nothing was written to standard output or is held for
\* it, no media byte was written, and the start-up never went on to the
\* header or to the capture graph (checked under SpecHandshake).
C21_FailedProbeWritesNothing ==
  (peer = "producer" /\ probe_result \notin {"none", "Ok"}) =>
    /\ hpc = "exit"
    /\ wr_closed
    /\ out_bytes = <<>> /\ stdout_buf = <<>> /\ pipe = <<>>
    /\ media_written = 0
    /\ video_info = NoVideoInfo

\* the probe graph ended with no sample captured, the producer has gone,
\* and the receiver has met end of file on its first read
C21_ProbeWithoutSample ==
  /\ peer = "producer"
  /\ probe_result = "unable to find video size"
  /\ rx = <<>>
  /\ hpc = "exit"
  /\ rpc = "done" /\ decoded.outcome = "Err" /\ fd_read = 0

====
